---- MODULE Spec2Model ----
(***************************************************************************)
(* Model of the Open Stage Control installer pipeline                      *)
(* (installer/main.py, installer/open_stage_control/open_stage_control.py).*)
(*                                                                         *)
(* One run of main() is: pre_install (five stages, failures aggregated),   *)
(* install, post_install.  External commands, the network and the file     *)
(* system calls are the environment: every outcome they can produce is a   *)
(* nondeterministic input of the action that invokes them.                 *)
(***************************************************************************)
EXTENDS Integers, Sequences, FiniteSets, TLC

\* ------------------------------------------------------------------ bounds
NumFiles == 2          \* number of distinct file names a bundle may hold
MaxRuns == 2           \* number of successive runs of main()
MaxMajor == 4          \* interpreter versions range over 2..MaxMajor,
MaxMinor == 10         \*   0..MaxMinor,
MaxMicro == 3          \*   0..MaxMicro
NumDeps == 3           \* length of the list of dependencies

Files == 1..NumFiles

\* --------------------------------------------------------------- constants
None == "None"
Unset == "unset"

\* the five stages of pre_install, in the order pre_install calls them
StageOrder ==
  <<"_download", "_unzip", "_install_dependencies", "_build", "_package">>

Stages == {StageOrder[i] : i \in 1..Len(StageOrder)}
NpmStages == {"_install_dependencies", "_build", "_package"}
Ops == Stages \cup {"install", "post_install"}

\* HTTP statuses a response object handed back by urlopen may carry
Statuses == {200, 301, 404}

\* what urlparse / urlopen can do
UrlOutcomes ==
  [kind : {"ValueError", "URLError", "TimeoutError", "Exception"}, status : {0}]
  \cup [kind : {"response"}, status : Statuses]

\* what subprocess.run([cmd, ...]) can do: the executable cannot be started
\* (FileNotFoundError is raised), or it runs and exits with a status
CmdOutcomes == {"norun", "zero", "nonzero"}

VARIABLES
  pc,            \* position in main(): the next call, or "exited"
  run,           \* number of the current run of main()
  \* ---- file system: staging
  downloads,     \* ~/Downloads exists
  symlinkedHome, \* ~/Downloads resolves to a different path (a symlink in it)
  archive,       \* _download_dst: "absent", "partial" or "full"
  tree,          \* _unzipped_dir exists
  packageDir,    \* _package_dir exists
  packaged,      \* files of _packaged_app ({} = the bundle does not exist)
  \* ---- file system: destination
  appDir,        \* _app_dir exists
  appDstKind,    \* _app_dst: "absent", "file" or "dir"
  appDst,        \* files under _app_dst: "none", "old" or "new" content
  appDirLoose,   \* bundle files lying directly in _app_dir
  \* ---- pre_install
  failures,      \* the list pre_install builds
  calls,         \* stages attempted in this run, in order
  ret,           \* what each stage / install / post_install returned
  cmdExit,       \* how the external command of each stage ended
  preStatus,     \* "running", "returned" or "raised"
  preResult,     \* value returned by pre_install
  \* ---- main
  exitKind,      \* "running", "ok" or "raised"
  raisedExc,     \* exception main() ended with
  printed,       \* what main() printed
  urlChecks, curlRuns, unzipRuns, installCalls, postCalls,
  urlResult,     \* what the last call of _test_url in this run returned
  \* ---- the __main__ guard
  sysInfo,       \* platform.system(), platform.machine(), sys.version_info
  guardState,    \* "start", "main" (main() was called) or the exception raised
  \* ---- dependencies (dep.py, deps.py, utils.install_dependencies)
  apps,          \* the list of Dep objects built so far
  depPc,         \* position in install_dependencies, or "idle"
  idx,           \* index of the app the loop is at
  have_errors,   \* the list install_dependencies builds (indices into apps)
  visits,        \* apps the loop has visited, in order
  installLog,    \* one entry per call of Dep.install
  reported       \* apps printed under "The following apps encountered errors"

fsStaging == <<downloads, symlinkedHome, archive, tree, packageDir, packaged>>
fsApp == <<appDir, appDstKind, appDst, appDirLoose>>
preVars == <<failures, calls, ret, cmdExit, preStatus, preResult>>
mainVars == <<exitKind, raisedExc, printed>>
counters == <<urlChecks, curlRuns, unzipRuns, installCalls, postCalls>>
guardVars == <<sysInfo, guardState>>
depVars == <<apps, depPc, idx, have_errors, visits, installLog, reported>>
auxVars == <<guardVars, depVars>>
pipelineVars == <<pc, run, fsStaging, fsApp, preVars, mainVars, counters,
                  urlResult>>
vars == <<pipelineVars, auxVars>>

\* ------------------------------------------------------------ pure helpers

\* Path.exists()
Exists(kind) == kind # "absent"

\* the status test of _test_url, as written
StatusOk(status) == status >= 200 \/ status < 400

\* OpenStageControl._test_url: the (response, error) pair, or no pair at all
\* when the function falls off its end
TestUrl(o) ==
  IF o.kind = "response"
  THEN IF StatusOk(o.status)
       THEN [pair |-> TRUE, response |-> [set |-> TRUE, status |-> o.status],
             err |-> None]
       ELSE [pair |-> FALSE, response |-> [set |-> FALSE, status |-> 0],
             err |-> None]
  ELSE [pair |-> TRUE, response |-> [set |-> FALSE, status |-> 0],
        err |-> o.kind]

\* _test_url has not been called
NoUrlResult ==
  [pair |-> FALSE, response |-> [set |-> FALSE, status |-> 0], err |-> None]

\* Failure(func=..., error=...)
Failure(f, e) == [func |-> f, error |-> e]

\* e = stage(); if e is not None: failures.append(Failure(func=stage, error=e))
AppendFailure(fs, f, e) == IF e # None THEN Append(fs, Failure(f, e)) ELSE fs

\* a pre_install that hands back its list even when the list is empty
PreInstallResult_AlwaysList(fs) == [isNone |-> FALSE, list |-> fs]

\* the tail of pre_install: the list when it is not empty, otherwise None
PreInstallResult(fs) ==
  IF Len(fs) # 0 THEN [isNone |-> FALSE, list |-> fs]
  ELSE [isNone |-> TRUE, list |-> <<>>]

\* the call that follows stage s in pre_install
NextCall(s) ==
  CASE s = "_download" -> "_unzip"
    [] s = "_unzip" -> "_install_dependencies"
    [] s = "_install_dependencies" -> "_build"
    [] s = "_build" -> "_package"
    [] s = "_package" -> "pre_return"

\* stage s returned e to pre_install
StageReturns(s, e) ==
  /\ ret' = [ret EXCEPT ![s] = e]
  /\ failures' = AppendFailure(failures, s, e)
  /\ pc' = NextCall(s)
  /\ UNCHANGED <<preStatus, preResult, mainVars>>

\* stage s raised err: nothing in pre_install or main catches it
StageRaises(s, err) ==
  /\ pc' = "exited"
  /\ preStatus' = "raised"
  /\ exitKind' = "raised"
  /\ raisedExc' = err
  /\ UNCHANGED <<ret, failures, preResult, printed>>

\* ------------------------------------------------------- the __main__ guard

\* the versions the guard compares against
MinMajor == 3
MinMinor == 8
MinMicro == 2

\* the systems the guard may find itself on
SysInfos ==
  [system : {"Darwin", "Linux"}, machine : {"arm64", "x86_64"},
   major : 2..MaxMajor, minor : 0..MaxMinor, micro : 0..MaxMicro]

\* a system the guard lets through: macOS Big Sur on Apple Silicon with its
\* Python 3.8.2
BigSur ==
  [system |-> "Darwin", machine |-> "arm64",
   major |-> MinMajor, minor |-> MinMinor, micro |-> MinMicro]

\* the "if __name__ == '__main__'" block: the exception it raises, or "main"
\* when it reaches the call of main()
Guard(s) ==
  IF s.system # "Darwin" THEN "NotImplementedError"
  ELSE IF s.machine # "arm64" THEN "NotImplementedError"
  ELSE IF s.major < MinMajor THEN "RuntimeError"
  ELSE IF s.minor < MinMinor THEN "RuntimeWarning"
  ELSE IF s.micro < MinMicro THEN "RuntimeWarning"
  ELSE "main"

\* the script is started: the guard runs
StartupGuard ==
  /\ guardState = "start"
  /\ guardState' = Guard(sysInfo)
  /\ UNCHANGED <<sysInfo, pipelineVars, depVars>>

\* install_dependencies is not running (main() never calls it)
DepIdle ==
  /\ apps = <<>>
  /\ depPc = "idle"
  /\ idx = 0
  /\ have_errors = <<>>
  /\ visits = <<>>
  /\ installLog = <<>>
  /\ reported = <<>>

\* ------------------------------------------------------------------- Init
\* main() has been called (the guard has let the script through) on a file
\* system in any state earlier runs or the user may have left
Init ==
  /\ sysInfo = BigSur
  /\ guardState = Guard(sysInfo)
  /\ DepIdle
  /\ pc = "_download"
  /\ run = 1
  /\ downloads \in BOOLEAN
  /\ symlinkedHome \in BOOLEAN
  /\ archive \in (IF downloads THEN {"absent", "partial", "full"} ELSE {"absent"})
  /\ tree \in (IF downloads THEN BOOLEAN ELSE {FALSE})
  /\ packageDir \in (IF tree THEN BOOLEAN ELSE {FALSE})
  /\ packaged \in (IF packageDir THEN SUBSET Files ELSE {{}})
  /\ appDir \in BOOLEAN
  /\ appDstKind \in (IF appDir THEN {"absent", "file", "dir"} ELSE {"absent"})
  /\ appDst \in (IF appDstKind = "dir" THEN [Files -> {"none", "old"}]
                 ELSE {[f \in Files |-> "none"]})
  /\ appDirLoose = {}
  /\ failures = <<>>
  /\ calls = <<>>
  /\ ret = [o \in Ops |-> Unset]
  /\ cmdExit = [s \in Stages |-> "notrun"]
  /\ preStatus = "running"
  /\ preResult = [isNone |-> TRUE, list |-> <<>>]
  /\ exitKind = "running"
  /\ raisedExc = None
  /\ printed = <<>>
  /\ urlChecks = 0 /\ curlRuns = 0 /\ unzipRuns = 0
  /\ urlResult = NoUrlResult
  /\ installCalls = 0 /\ postCalls = 0

\* ------------------------------------------------------------- pre_install

\* a _download without its "already downloaded" test
DownloadSkips_Never(a) == FALSE

\* the early return of _download
DownloadSkips(a) == Exists(a)

\* OpenStageControl._download, and pre_install's handling of its result
Download ==
  /\ pc = "_download"
  /\ calls' = Append(calls, "_download")
  /\ UNCHANGED <<auxVars, run, downloads, symlinkedHome, tree, packageDir, packaged,
                 fsApp, unzipRuns, installCalls, postCalls>>
  /\ IF DownloadSkips(archive)
     THEN /\ StageReturns("_download", None)
          /\ UNCHANGED <<archive, cmdExit, urlChecks, curlRuns, urlResult>>
     ELSE /\ urlChecks' = urlChecks + 1
          /\ \E o \in UrlOutcomes :
               LET r == TestUrl(o) IN
               /\ urlResult' = r
               /\ IF ~r.pair
                  THEN \* "response, err = None" cannot be unpacked
                       /\ StageRaises("_download", "TypeError")
                       /\ UNCHANGED <<archive, cmdExit, curlRuns>>
                  ELSE IF r.err # None
                  THEN /\ StageRaises("_download", r.err)
                       /\ UNCHANGED <<archive, cmdExit, curlRuns>>
                  ELSE IF ~r.response.set
                  THEN /\ StageRaises("_download", "Exception")
                       /\ UNCHANGED <<archive, cmdExit, curlRuns>>
                  ELSE IF ~downloads
                  THEN \* os.chdir(self._downloads)
                       /\ StageRaises("_download", "FileNotFoundError")
                       /\ UNCHANGED <<archive, cmdExit, curlRuns>>
                  ELSE
                    /\ curlRuns' = curlRuns + 1
                    /\ \E c \in CmdOutcomes :
                         /\ cmdExit' = [cmdExit EXCEPT !["_download"] = c]
                         /\ IF c = "norun"
                            THEN /\ StageRaises("_download", "FileNotFoundError")
                                 /\ UNCHANGED archive
                            ELSE /\ archive' \in (IF c = "zero" THEN {"full"}
                                                  ELSE {"absent", "partial"})
                                 /\ IF ~Exists(archive')
                                    THEN \* resolve(strict=True)
                                         StageReturns("_download", "FileNotFoundError")
                                    ELSE IF symlinkedHome
                                    THEN StageReturns("_download", "FileNotFoundError")
                                    ELSE StageReturns("_download", None)

\* an _unzip without its "already unzipped" test
UnzipSkips_Never(t) == FALSE

\* the early return of _unzip
UnzipSkips(t) == t

\* OpenStageControl._unzip, and pre_install's handling of its result
Unzip ==
  /\ pc = "_unzip"
  /\ calls' = Append(calls, "_unzip")
  /\ UNCHANGED <<auxVars, urlResult, run, downloads, symlinkedHome, archive, fsApp,
                 urlChecks, curlRuns, installCalls, postCalls>>
  /\ IF UnzipSkips(tree)
     THEN /\ StageReturns("_unzip", None)
          /\ UNCHANGED <<tree, packageDir, packaged, cmdExit, unzipRuns>>
     ELSE IF ~downloads
     THEN /\ StageRaises("_unzip", "FileNotFoundError")
          /\ UNCHANGED <<tree, packageDir, packaged, cmdExit, unzipRuns>>
     ELSE
       /\ unzipRuns' = unzipRuns + 1
       /\ \E c \in (IF archive = "full" THEN CmdOutcomes ELSE {"norun", "nonzero"}) :
            /\ cmdExit' = [cmdExit EXCEPT !["_unzip"] = c]
            /\ UNCHANGED <<packageDir, packaged>>
            /\ IF c = "norun"
               THEN /\ StageRaises("_unzip", "FileNotFoundError")
                    /\ UNCHANGED tree
               ELSE /\ tree' = (c = "zero")
                    /\ IF ~tree'
                       THEN StageReturns("_unzip", "FileNotFoundError")
                       ELSE IF symlinkedHome
                       THEN StageReturns("_unzip", "FileNotFoundError")
                       ELSE StageReturns("_unzip", None)

\* what a stage returns once its npm command has run and exited:
\* subprocess.run is called without check=True, so no exit status raises
\* CalledProcessError and the except clause never runs
NpmReturn(c) == None

\* the common body of _install_dependencies, _build and _package
NpmStage(s, c) ==
  /\ pc = s
  /\ calls' = Append(calls, s)
  /\ IF ~tree
     THEN \* os.chdir(self._unzipped_dir)
          /\ StageRaises(s, "FileNotFoundError")
          /\ UNCHANGED cmdExit
     ELSE /\ cmdExit' = [cmdExit EXCEPT ![s] = c]
          /\ IF c = "norun"
             THEN StageRaises(s, "FileNotFoundError")
             ELSE StageReturns(s, NpmReturn(c))

\* OpenStageControl._install_dependencies
InstallDependencies ==
  /\ \E c \in CmdOutcomes : NpmStage("_install_dependencies", c)
  /\ UNCHANGED <<auxVars, urlResult, run, fsStaging, fsApp, counters>>

\* OpenStageControl._build
Build ==
  /\ \E c \in CmdOutcomes : NpmStage("_build", c)
  /\ UNCHANGED <<auxVars, urlResult, run, fsStaging, fsApp, counters>>

\* OpenStageControl._package: a successful packaging leaves a bundle in
\* _package_dir; a failed one may have created the directory already
Package ==
  /\ \E c \in CmdOutcomes :
       /\ NpmStage("_package", c)
       /\ IF tree /\ c = "zero"
          THEN /\ packageDir' = TRUE
               /\ packaged' \in (SUBSET Files \ {{}})
          ELSE IF tree /\ c = "nonzero"
          THEN /\ packageDir' \in {packageDir, TRUE}
               /\ UNCHANGED packaged
          ELSE UNCHANGED <<packageDir, packaged>>
  /\ UNCHANGED <<auxVars, urlResult, run, downloads, symlinkedHome, archive, tree, fsApp, counters>>

\* the end of pre_install: "if len(failures) != 0: return failures; return None"
PreInstallReturn ==
  /\ pc = "pre_return"
  /\ preStatus' = "returned"
  /\ preResult' = PreInstallResult(failures)
  /\ pc' = "main_check"
  /\ UNCHANGED <<auxVars, urlResult, run, fsStaging, fsApp, failures, calls, ret, cmdExit,
                 mainVars, counters>>

\* main's report of one Failure
Report(f) == [msg |-> "failure", func |-> f.func, error |-> f.error]

\* the reports main prints for a list of failures, in list order
Reports(fs) == [i \in 1..Len(fs) |-> Report(fs[i])]

\* a main that does not look at what pre_install returned
PreInstallFailed_Ignored(r) == FALSE

\* main's test of pre_install's result: "if failures is not None"
PreInstallFailed(r) == ~r.isNone

\* main after pre_install: report every failure and raise, or go on to install
MainCheck ==
  /\ pc = "main_check"
  /\ IF PreInstallFailed(preResult)
     THEN /\ printed' = printed \o Reports(preResult.list)
          /\ pc' = "exited"
          /\ exitKind' = "raised"
          /\ raisedExc' = "Exception"
     ELSE /\ pc' = "install"
          /\ UNCHANGED mainVars
  /\ UNCHANGED <<auxVars, urlResult, run, fsStaging, fsApp, preVars, counters>>

\* install or post_install raised err: main does not catch it
MainRaises(err) ==
  /\ pc' = "exited"
  /\ exitKind' = "raised"
  /\ raisedExc' = err
  /\ UNCHANGED <<ret, printed>>

\* shutil.copytree(src, dst, dirs_exist_ok=True) into an existing or a new
\* directory: every file of src is written, every other file of dst is kept
CopyInto(dst, src) == [f \in Files |-> IF f \in src THEN "new" ELSE dst[f]]

NoFiles == [f \in Files |-> "none"]

\* OpenStageControl.install
Install ==
  /\ pc = "install"
  /\ installCalls' = installCalls + 1
  /\ UNCHANGED <<auxVars, urlResult, run, fsStaging, failures, calls, cmdExit, preStatus, preResult,
                 urlChecks, curlRuns, unzipRuns, postCalls>>
  /\ IF ~packageDir
     THEN \* os.chdir(self._package_dir)
          /\ MainRaises("FileNotFoundError")
          /\ UNCHANGED fsApp
     ELSE \E mk \in {"ok", "fail"}, cp \in {"ok", "fail"}, rm \in {"ok", "fail"} :
       IF ~appDir /\ mk = "fail"
       THEN \* self._app_dir.mkdir(parents=True, exist_ok=True)
            /\ MainRaises("PermissionError")
            /\ UNCHANGED fsApp
       ELSE
         /\ pc' = "install_check"
         /\ UNCHANGED mainVars
         /\ IF packaged = {}
            THEN \* copytree cannot list the source
                 /\ ret' = [ret EXCEPT !["install"] = "FileNotFoundError"]
                 /\ appDir' = TRUE
                 /\ UNCHANGED <<appDstKind, appDst, appDirLoose>>
            ELSE IF appDstKind # "file"
            THEN \* copytree(self._packaged_app, self._app_dst, dirs_exist_ok=True)
                 /\ appDir' = TRUE
                 /\ appDstKind' = "dir"
                 /\ UNCHANGED appDirLoose
                 /\ IF cp = "ok"
                    THEN /\ appDst' = CopyInto(appDst, packaged)
                         /\ ret' = [ret EXCEPT !["install"] = None]
                    ELSE /\ \E done \in SUBSET packaged :
                              /\ done # packaged
                              /\ appDst' = CopyInto(appDst, done)
                         /\ ret' = [ret EXCEPT !["install"] = "Error"]
            ELSE \* FileExistsError: rmtree(self._app_dir), then
                 \* copytree(self._packaged_app, self._app_dir)
                 IF rm = "fail"
                 THEN /\ ret' = [ret EXCEPT !["install"] = "OSError"]
                      /\ UNCHANGED fsApp
                 ELSE /\ appDir' = TRUE
                      /\ appDstKind' = "absent"
                      /\ appDst' = NoFiles
                      /\ IF cp = "ok"
                         THEN /\ appDirLoose' = packaged
                              /\ ret' = [ret EXCEPT !["install"] = None]
                         ELSE /\ \E done \in SUBSET packaged :
                                   /\ done # packaged
                                   /\ appDirLoose' = done
                              /\ ret' = [ret EXCEPT !["install"] = "Error"]

\* a main that raises only the OSError install or post_install returned
ReturnedError_OnlyOSError(e) == e = "OSError"

\* a main that does not look at what install or post_install returned
ReturnedError_Ignored(e) == FALSE

\* main's test of the value install or post_install returned: "if e is not None"
ReturnedError(e) == e # None

\* main after install: raise the error, or go on to post_install
MainAfterInstall ==
  /\ pc = "install_check"
  /\ IF ReturnedError(ret["install"])
     THEN /\ pc' = "exited"
          /\ exitKind' = "raised"
          /\ raisedExc' = ret["install"]
          /\ UNCHANGED printed
     ELSE /\ pc' = "post_install"
          /\ UNCHANGED mainVars
  /\ UNCHANGED <<auxVars, urlResult, run, fsStaging, fsApp, preVars, counters>>

\* a post_install that swallows the errors it catches
PostInstallResult_Swallowed(rmErr, unlinkErr) == None

\* post_install's result once both removals are over: rmErr and unlinkErr
\* are the errors the two except clauses caught (None when none was caught)
PostInstallResult(rmErr, unlinkErr) ==
  IF rmErr # None THEN rmErr ELSE unlinkErr

\* OpenStageControl.post_install
PostInstall ==
  /\ pc = "post_install"
  /\ postCalls' = postCalls + 1
  /\ UNCHANGED <<auxVars, urlResult, run, downloads, symlinkedHome, fsApp, failures, calls, cmdExit,
                 preStatus, preResult, urlChecks, curlRuns, unzipRuns, installCalls>>
  /\ \E rm \in {"ok", "OSError"}, ul \in {"ok", "FileNotFoundError", "PermissionError"} :
       LET rmErr == IF tree /\ rm # "ok" THEN rm ELSE None
           unlinks == rmErr = None /\ Exists(archive)
           unlinkErr == IF unlinks /\ ul # "ok" THEN ul ELSE None
       IN
       \* shutil.rmtree(self._unzipped_dir)
       /\ IF tree /\ rm = "ok"
          THEN tree' = FALSE /\ packageDir' = FALSE /\ packaged' = {}
          ELSE IF tree
          THEN /\ UNCHANGED tree
               /\ \/ UNCHANGED <<packageDir, packaged>>
                  \/ packageDir' = FALSE /\ packaged' = {}
          ELSE UNCHANGED <<tree, packageDir, packaged>>
       \* self._download_dst.unlink()
       /\ IF unlinks /\ ul # "PermissionError"
          THEN archive' = "absent"
          ELSE UNCHANGED archive
       /\ IF unlinkErr = "PermissionError"
          THEN MainRaises("PermissionError")
          ELSE /\ ret' = [ret EXCEPT !["post_install"] =
                            PostInstallResult(rmErr, unlinkErr)]
               /\ pc' = "post_check"
               /\ UNCHANGED mainVars

Installed == [msg |-> "installed", func |-> None, error |-> None]

\* main after post_install: raise the error, or print the final message
MainAfterPostInstall ==
  /\ pc = "post_check"
  /\ pc' = "exited"
  /\ IF ReturnedError(ret["post_install"])
     THEN /\ exitKind' = "raised"
          /\ raisedExc' = ret["post_install"]
          /\ UNCHANGED printed
     ELSE /\ exitKind' = "ok"
          /\ printed' = Append(printed, Installed)
          /\ UNCHANGED raisedExc
  /\ UNCHANGED <<auxVars, urlResult, run, fsStaging, fsApp, preVars, counters>>

\* the script is started again: main() builds a fresh OpenStageControl and
\* finds the file system as the previous run left it
Restart ==
  /\ pc = "exited"
  /\ run < MaxRuns
  /\ run' = run + 1
  /\ pc' = "_download"
  /\ failures' = <<>>
  /\ calls' = <<>>
  /\ ret' = [o \in Ops |-> Unset]
  /\ cmdExit' = [s \in Stages |-> "notrun"]
  /\ preStatus' = "running"
  /\ preResult' = [isNone |-> TRUE, list |-> <<>>]
  /\ exitKind' = "running"
  /\ raisedExc' = None
  /\ printed' = <<>>
  /\ urlChecks' = 0 /\ curlRuns' = 0 /\ unzipRuns' = 0
  /\ urlResult' = NoUrlResult
  /\ installCalls' = 0 /\ postCalls' = 0
  /\ UNCHANGED <<fsStaging, fsApp, auxVars>>

Next ==
  \/ Download
  \/ Unzip
  \/ InstallDependencies
  \/ Build
  \/ Package
  \/ PreInstallReturn
  \/ MainCheck
  \/ Install
  \/ MainAfterInstall
  \/ PostInstall
  \/ MainAfterPostInstall
  \/ Restart

Spec == Init /\ [][Next]_vars

\* ---- the guard on its own: every system, before main() is called

\* nothing of the pipeline has run
PipelineIdle ==
  /\ pc = "not_started"
  /\ run = 0
  /\ downloads = TRUE /\ symlinkedHome = FALSE
  /\ archive = "absent" /\ tree = FALSE
  /\ packageDir = FALSE /\ packaged = {}
  /\ appDir = FALSE /\ appDstKind = "absent"
  /\ appDst = NoFiles /\ appDirLoose = {}
  /\ failures = <<>> /\ calls = <<>>
  /\ ret = [o \in Ops |-> Unset]
  /\ cmdExit = [s \in Stages |-> "notrun"]
  /\ preStatus = "running"
  /\ preResult = [isNone |-> TRUE, list |-> <<>>]
  /\ exitKind = "running" /\ raisedExc = None /\ printed = <<>>
  /\ urlChecks = 0 /\ curlRuns = 0 /\ unzipRuns = 0
  /\ urlResult = NoUrlResult
  /\ installCalls = 0 /\ postCalls = 0

GuardInit ==
  /\ PipelineIdle
  /\ DepIdle
  /\ sysInfo \in SysInfos
  /\ guardState = "start"

GuardNext == StartupGuard

GuardSpec == GuardInit /\ [][GuardNext]_vars

\* ---- the dependencies: deps.py builds the list, install_dependencies
\* ---- walks it

\* shutil.which(name) and Path(p).resolve(strict=True) in Dep._get_path:
\* the executable is not found, found and resolved, or found but not
\* resolvable
PathOutcomes == {"notfound", "resolved", "FileNotFoundError", "RuntimeError"}

\* Dep._str_to_path: the (path, error) pair
StrToPath(o) ==
  IF o = "resolved" THEN [path |-> "resolved", error |-> None]
  ELSE [path |-> None, error |-> o]

\* Dep.__init__ followed by Dep._get_path
NewDep(n, o) ==
  LET fresh == [name |-> n, installed |-> FALSE, path |-> None, errors |-> <<>>]
  IN IF o = "notfound" THEN fresh
     ELSE LET r == StrToPath(o)
              withErr == IF r.error # None
                         THEN [fresh EXCEPT !.errors = Append(@, r.error)]
                         ELSE fresh
          IN IF r.path # None
             THEN [withErr EXCEPT !.installed = TRUE, !.path = r.path]
             ELSE withErr

\* deps.py: the next Dep of the list is constructed
ConstructDep ==
  /\ depPc = "import"
  /\ Len(apps) < NumDeps
  /\ \E o \in PathOutcomes : apps' = Append(apps, NewDep(Len(apps) + 1, o))
  /\ UNCHANGED <<depPc, idx, have_errors, visits, installLog, reported>>
  /\ UNCHANGED <<pipelineVars, guardVars>>

\* install_dependencies is called: "have_errors = []; for app in apps"
StartInstallDependencies ==
  /\ depPc = "import"
  /\ Len(apps) = NumDeps
  /\ depPc' = "loop"
  /\ idx' = 1
  /\ have_errors' = <<>>
  /\ UNCHANGED <<apps, visits, installLog, reported>>
  /\ UNCHANGED <<pipelineVars, guardVars>>

\* Dep.num_errors
num_errors(app) == Len(app.errors)

\* Dep.has_errors
has_errors(app) == num_errors(app) > 0

\* "app in have_errors"
InList(i, l) == \E k \in 1..Len(l) : l[k] = i

\* the head of the loop body: an app with errors is recorded and skipped,
\* any other app has its install called; after the last app comes the report
LoopHead ==
  /\ depPc = "loop"
  /\ IF idx > Len(apps)
     THEN /\ depPc' = "report"
          /\ UNCHANGED <<idx, have_errors, visits>>
     ELSE /\ visits' = Append(visits, idx)
          /\ IF has_errors(apps[idx]) /\ ~InList(idx, have_errors)
             THEN /\ have_errors' = Append(have_errors, idx)
                  /\ idx' = idx + 1
                  /\ UNCHANGED depPc
             ELSE /\ depPc' = "install"
                  /\ UNCHANGED <<idx, have_errors>>
  /\ UNCHANGED <<apps, installLog, reported>>
  /\ UNCHANGED <<pipelineVars, guardVars>>

\* what running install_cmd can do.  The first Dep is brew: the first element
\* of its command is "NONINTERACTIVE=1", which is no executable.  The other
\* Deps are installed with "brew install ...", and the loop reaches them only
\* when shutil.which found brew: the command runs and exits
InstallCmdOutcomes(i) == IF i = 1 THEN {"norun"} ELSE {"zero", "nonzero"}

\* a Dep.install that runs its command whether or not the Dep is installed
DepInstallRuns_Always(installed) == TRUE

\* Dep.install: "if not self.installed"
DepInstallRuns(installed) == ~installed

\* what Dep.install returns once its command has exited: subprocess.run is
\* called without check=True, so CalledProcessError is never raised
DepInstallReturn(c) == None

\* Dep.install, called by the loop on apps[idx]
DepInstall ==
  /\ depPc = "install"
  /\ IF DepInstallRuns(apps[idx].installed)
     THEN \E c \in InstallCmdOutcomes(idx) :
            IF c = "norun"
            THEN \* FileNotFoundError leaves install and install_dependencies
                 /\ depPc' = "raised"
                 /\ installLog' =
                      Append(installLog, [app |-> idx, ran |-> TRUE,
                                          returned |-> "FileNotFoundError raised"])
            ELSE /\ depPc' = "after_install"
                 /\ installLog' =
                      Append(installLog, [app |-> idx, ran |-> TRUE,
                                          returned |-> DepInstallReturn(c)])
     ELSE /\ depPc' = "after_install"
          /\ installLog' =
               Append(installLog, [app |-> idx, ran |-> FALSE, returned |-> None])
  /\ UNCHANGED <<apps, idx, have_errors, visits, reported>>
  /\ UNCHANGED <<pipelineVars, guardVars>>

\* the rest of the loop body: an error install returned is appended to the
\* app's errors and the app is recorded
LoopTail ==
  /\ depPc = "after_install"
  /\ LET error == installLog[Len(installLog)].returned IN
     IF error # None
     THEN /\ apps' = [apps EXCEPT ![idx].errors = Append(@, error)]
          /\ have_errors' = IF ~InList(idx, have_errors)
                            THEN Append(have_errors, idx) ELSE have_errors
     ELSE UNCHANGED <<apps, have_errors>>
  /\ idx' = idx + 1
  /\ depPc' = "loop"
  /\ UNCHANGED <<visits, installLog, reported>>
  /\ UNCHANGED <<pipelineVars, guardVars>>

\* the end of install_dependencies: the apps of have_errors are printed
ReportErrors ==
  /\ depPc = "report"
  /\ reported' = IF Len(have_errors) > 0 THEN have_errors ELSE <<>>
  /\ depPc' = "done"
  /\ UNCHANGED <<apps, idx, have_errors, visits, installLog>>
  /\ UNCHANGED <<pipelineVars, guardVars>>

DepInit ==
  /\ PipelineIdle
  /\ sysInfo = BigSur
  /\ guardState = "start"
  /\ apps = <<>>
  /\ depPc = "import"
  /\ idx = 0
  /\ have_errors = <<>>
  /\ visits = <<>>
  /\ installLog = <<>>
  /\ reported = <<>>

DepNext ==
  \/ ConstructDep
  \/ StartInstallDependencies
  \/ LoopHead
  \/ DepInstall
  \/ LoopTail
  \/ ReportErrors

DepSpec == DepInit /\ [][DepNext]_vars

\* ------------------------------------------------------------------ claims

IsError(e) == e \notin {Unset, None}

\* the stages that returned an error in this run, in stage order
FailedStages == SelectSeq(StageOrder, LAMBDA s : IsError(ret[s]))

\* stage s has an entry in the list pre_install returned
Reported(s) ==
  \E i \in 1..Len(preResult.list) : preResult.list[i].func = s

\* C1: no failure of a pre-install stage is raised out of pre_install:
\* pre_install always returns normally, and a stage that failed has a Failure
\* entry in the returned list.
C1_NoStageFailureRaised ==
  /\ preStatus # "raised"
  /\ preStatus = "returned" =>
       \A s \in Stages : IsError(ret[s]) => Reported(s)

\* C2: in every call of pre_install the five stages are attempted exactly
\* once, in the order download, extract, dependency-install, build, package,
\* whether or not an earlier stage failed: the stages attempted so far are a
\* prefix of that order, and once pre_install is over all five were attempted.
C2_AllStagesAttempted ==
  /\ Len(calls) <= Len(StageOrder)
  /\ calls = SubSeq(StageOrder, 1, Len(calls))
  /\ preStatus # "running" => calls = StageOrder

\* C3: when the npm command of the dependency-install, build or package stage
\* exits with a non-zero status, the stage returns an error, pre_install
\* returns a Failure for the stage, and main never calls install.
C3_NonZeroExitIsFailure ==
  \A s \in NpmStages :
    cmdExit[s] = "nonzero" =>
      /\ IsError(ret[s])
      /\ installCalls = 0
      /\ preStatus = "returned" => Reported(s)

\* C4: when pre_install returns, it returns None exactly when no stage
\* returned an error; otherwise it returns a non-empty list with one Failure
\* per stage that returned an error, in stage order, each holding the stage
\* and the error that stage returned.
C4_PreInstallResult ==
  preStatus = "returned" =>
    /\ preResult.isNone <=> (\A s \in Stages : ~IsError(ret[s]))
    /\ ~preResult.isNone =>
         /\ Len(preResult.list) > 0
         /\ Len(preResult.list) = Len(FailedStages)
         /\ \A i \in 1..Len(FailedStages) :
              /\ preResult.list[i].func = FailedStages[i]
              /\ preResult.list[i].error = ret[FailedStages[i]]

\* two stages failed and pre_install returned both failures
C4_Witness ==
  /\ preStatus = "returned"
  /\ Len(preResult.list) = 2
  /\ IsError(ret["_download"]) /\ IsError(ret["_unzip"])

\* pre_install has returned at least one Failure
PreInstallReportedFailure == preStatus = "returned" /\ ~preResult.isNone

\* C5: once pre_install has returned at least one Failure, main prints one
\* report per failure, in order, and raises; install and post_install are
\* never called, and no step changes the staging files or the application
\* directory.
C5_NoInstallAfterFailure ==
  [][PreInstallReportedFailure =>
       /\ UNCHANGED <<fsStaging, fsApp>>
       /\ installCalls = 0 /\ postCalls = 0
       /\ ret["install"] = Unset /\ ret["post_install"] = Unset
       /\ IF pc = "main_check"
          THEN /\ pc' = "exited"
               /\ exitKind' = "raised"
               /\ Len(printed') = Len(preResult.list)
               /\ \A i \in 1..Len(preResult.list) :
                    /\ printed'[i].msg = "failure"
                    /\ printed'[i].func = preResult.list[i].func
                    /\ printed'[i].error = preResult.list[i].error
          ELSE pc = "exited" /\ exitKind = "raised"]_vars

\* main has reported the failures of pre_install and raised
C5_Witness ==
  /\ PreInstallReportedFailure
  /\ pc = "exited" /\ exitKind = "raised"
  /\ Len(printed) >= 1

\* C6: if install returns an error main raises it and post_install is never
\* called; if post_install returns an error main raises it; the final
\* "Installed ..." message is printed only when pre_install returned None and
\* install and post_install both returned None.
C6_ErrorsPropagated ==
  /\ IsError(ret["install"]) =>
       /\ postCalls = 0
       /\ pc \in {"install_check", "exited"}
       /\ pc = "exited" => (exitKind = "raised" /\ raisedExc = ret["install"])
  /\ IsError(ret["post_install"]) =>
       /\ pc \in {"post_check", "exited"}
       /\ pc = "exited" => (exitKind = "raised" /\ raisedExc = ret["post_install"])
  /\ (\E i \in 1..Len(printed) : printed[i] = Installed) =>
       /\ preStatus = "returned" /\ preResult.isNone
       /\ ret["install"] = None /\ ret["post_install"] = None

\* install returned an error and main ended by raising it
C6_Witness ==
  /\ IsError(ret["install"])
  /\ pc = "exited" /\ raisedExc = ret["install"]

\* C7: when the archive exists as the download stage starts, the stage
\* returns None, records no failure, checks no URL, runs no download command
\* and leaves the archive as it was.
C7_DownloadSkipped ==
  [][(pc = "_download" /\ Exists(archive)) =>
       /\ ret'["_download"] = None
       /\ failures' = failures
       /\ pc' = "_unzip"
       /\ UNCHANGED <<archive, urlChecks, curlRuns>>]_vars

\* the download stage has run on an existing, incomplete archive
C7_Witness ==
  /\ calls = <<"_download">>
  /\ ret["_download"] = None
  /\ archive = "partial"
  /\ urlChecks = 0 /\ curlRuns = 0

\* C8: when the extracted directory exists as the extract stage starts, the
\* stage returns None without running the decompression command and leaves
\* the directory and its content as they were; the decompression command
\* runs only when the directory does not exist.
C8_UnzipSkipped ==
  [][pc = "_unzip" =>
       /\ tree =>
            /\ ret'["_unzip"] = None
            /\ pc' = "_install_dependencies"
            /\ UNCHANGED <<tree, packageDir, packaged, unzipRuns,
                           cmdExit, failures>>
       /\ unzipRuns' # unzipRuns => ~tree]_vars

\* the extract stage has run on an existing directory that holds a bundle
C8_Witness ==
  /\ Len(calls) = 2 /\ calls[2] = "_unzip"
  /\ ret["_unzip"] = None
  /\ tree /\ packaged # {}
  /\ unzipRuns = 0

\* C9: when _app_dst already holds a bundle and install returns None, the
\* destination afterwards holds exactly the newly packaged bundle: every file
\* of the new bundle, and no file the new bundle does not have.
C9_InstallReplaces ==
  [][(/\ pc = "install"
      /\ appDstKind = "dir"
      /\ \E f \in Files : appDst[f] # "none"
      /\ ret'["install"] = None) =>
       /\ appDstKind' = "dir"
       /\ \A f \in Files :
            appDst'[f] = (IF f \in packaged THEN "new" ELSE "none")]_vars

\* C10: whenever post_install has returned None, neither the archive nor the
\* extracted tree exists.
C10_StagingRemoved ==
  ret["post_install"] = None => (~tree /\ ~Exists(archive))

\* post_install returned None in a run that downloaded the archive and
\* extracted the tree
C10_Witness ==
  /\ ret["post_install"] = None
  /\ cmdExit["_download"] = "zero" /\ cmdExit["_unzip"] = "zero"
  /\ ~tree /\ ~Exists(archive)

\* (major, minor, micro) is version a.b.c or a later one
AtLeast(s, a, b, c) ==
  \/ s.major > a
  \/ s.major = a /\ s.minor > b
  \/ s.major = a /\ s.minor = b /\ s.micro >= c

\* C11: on macOS / arm64 the guard calls main() exactly for the interpreter
\* versions that are at least 3.8.2, and raises for every version below it.
C11_MinimumVersion ==
  (guardState # "start" /\ sysInfo.system = "Darwin" /\ sysInfo.machine = "arm64") =>
    (guardState = "main" <=> AtLeast(sysInfo, 3, 8, 2))

InstalledIffPath ==
  \A i \in 1..Len(apps) : apps[i].installed <=> (apps[i].path # None)

\* C13: for every Dep installed holds exactly when path is set; a call of
\* Dep.install runs the install command only on a Dep that is not installed,
\* runs nothing and returns None on an installed one, and leaves installed,
\* path and errors of every Dep as they were.
C13_DepInstall ==
  [][/\ InstalledIffPath /\ InstalledIffPath'
     /\ depPc = "install" =>
          /\ apps' = apps
          /\ Len(installLog') = Len(installLog) + 1
          /\ LET call == installLog'[Len(installLog')] IN
             /\ call.app = idx
             /\ call.ran => ~apps[idx].installed
             /\ apps[idx].installed => (~call.ran /\ call.returned = None)]_vars

\* install was called on an installed Dep and on one that is not installed
C13_Witness ==
  /\ \E k \in 1..Len(installLog) :
       /\ apps[installLog[k].app].installed
       /\ ~installLog[k].ran /\ installLog[k].returned = None
  /\ \E k \in 1..Len(installLog) :
       /\ ~apps[installLog[k].app].installed
       /\ installLog[k].ran

\* C14: once install_dependencies is over, it has visited every app once in
\* list order; no install was attempted on an app that had errors when it was
\* visited; and the apps reported as having errors are exactly the apps with
\* at least one error, each once.
C14_InstallDependencies ==
  depPc \in {"done", "raised"} =>
    /\ visits = [i \in 1..Len(apps) |-> i]
    /\ \A k \in 1..Len(installLog) :
         installLog[k].returned = None => apps[installLog[k].app].errors = <<>>
    /\ \A i \in 1..Len(apps) :
         has_errors(apps[i]) <=> InList(i, reported)
    /\ \A j, k \in 1..Len(reported) : reported[j] = reported[k] => j = k

\* a step removes the archive or the extracted tree
StagingRemoved ==
  \/ Exists(archive) /\ ~Exists(archive')
  \/ tree /\ ~tree'

\* C15: in every run the archive and the extracted tree are removed only by
\* post_install, after install has returned None in that run; a run that
\* ended without calling post_install leaves both in place for the next run,
\* whose download and extract stages run no command for an artifact that
\* exists.
C15_CleanupOnlyAfterInstall ==
  [][/\ StagingRemoved => (pc = "post_install" /\ ret["install"] = None)
     /\ (pc = "exited" /\ postCalls = 0) =>
          (pc' = "_download" /\ archive' = archive /\ tree' = tree)
     /\ (pc = "_download" /\ Exists(archive)) =>
          (curlRuns' = curlRuns /\ archive' = archive)
     /\ (pc = "_unzip" /\ tree) =>
          (unzipRuns' = unzipRuns /\ tree' = tree)]_vars

\* a run downloaded and extracted, installed, and removed both artifacts
C15_Witness ==
  /\ pc = "exited" /\ exitKind = "ok"
  /\ cmdExit["_download"] = "zero" /\ cmdExit["_unzip"] = "zero"
  /\ ret["install"] = None /\ postCalls = 1
  /\ ~tree /\ ~Exists(archive)
====
